---- MODULE Spec2Model ----
(***************************************************************************)
(* Model of migrate_db.js: the one-shot migration of the legacy account    *)
(* database (encryptedCode per account) into the new schema (plaintext     *)
(* code plus pingEnabled).  The script is a single synchronous pass; the   *)
(* model cuts it at its statements so that ordering, the console output    *)
(* and the state of the destination file can be observed.                  *)
(***************************************************************************)
EXTENDS Integers, Sequences, FiniteSets, TLC

\* Largest number of account records in a modelled source document.
MaxAccounts == 2

(***************************************************************************)
(* JavaScript values.  A value is a record [t, v]: its type tag and its    *)
(* text, so that null, undefined, false and "" stay distinct.              *)
(***************************************************************************)
JsStr(s) == [t |-> "string", v |-> s]
JsBool(b) == [t |-> "boolean", v |-> IF b THEN "true" ELSE "false"]
JsNull == [t |-> "null", v |-> ""]
JsUndefined == [t |-> "undefined", v |-> ""]

\* ToBoolean of the values above: if (x), !x.
Truthy(x) ==
    CASE x.t = "string"  -> x.v # ""
      [] x.t = "boolean" -> x.v = "true"
      [] OTHER           -> FALSE

\* `${x}` inside a template literal.
TemplateText(x) == IF x.t \in {"null", "undefined"} THEN x.t ELSE x.v

\* acc.f, and the binding a destructuring pattern gives f: undefined if absent.
Get(obj, f) == IF f \in DOMAIN obj THEN obj[f] ELSE JsUndefined

\* One property written by an object literal: later keys win.
Put(obj, k, val) == [f \in DOMAIN obj \cup {k} |-> IF f = k THEN val ELSE obj[f]]

\* The fields of a and of b, a's value where both have the field.
Merge(a, b) == [f \in DOMAIN a \cup DOMAIN b |-> IF f \in DOMAIN a THEN a[f] ELSE b[f]]

(***************************************************************************)
(* Ciphertexts.  CryptoJS.AES.decrypt(ct, SECRET_KEY).toString(Utf8) is    *)
(* unauthenticated AES-CBC: PKCS7 unpadding is not validated, and the      *)
(* bytes are then decoded as UTF-8, which throws "Malformed UTF-8 data"    *)
(* on an invalid sequence.  A ciphertext therefore falls in one of the     *)
(* classes below, named by what the call does with it.                     *)
(***************************************************************************)
CtValid == "enc(legacy,ABC123)"    \* produced under SECRET_KEY from "ABC123"
CtValidEmpty == "enc(legacy,)"     \* produced under SECRET_KEY from ""
CtGarbage == "garbage"             \* not a ciphertext: decodes to no bytes
CtBadUtf8 == "enc(other,XYZ789)#1" \* foreign key, bytes are not UTF-8
CtForeign == "enc(other,XYZ789)#2" \* foreign key, bytes happen to be UTF-8

Ciphertexts == {CtValid, CtValidEmpty, CtGarbage, CtBadUtf8, CtForeign}

\* The plaintext a ciphertext was produced from under the legacy key, if any.
LegacyPlaintext(ct) ==
    CASE ct = CtValid      -> "ABC123"
      [] ct = CtValidEmpty -> ""

\* The library call of lines 10-11: either throws or returns a string.
AesDecryptUtf8(ct) ==
    CASE ct \in {CtValid, CtValidEmpty} -> [threw |-> FALSE, text |-> LegacyPlaintext(ct)]
      [] ct = CtGarbage -> [threw |-> FALSE, text |-> ""]
      [] ct = CtBadUtf8 -> [threw |-> TRUE, text |-> ""]
      [] ct = CtForeign -> [threw |-> FALSE, text |-> "~q"]

\* Console lines: [stream, line, arg].
Line(stream, line, arg) == [stream |-> stream, line |-> line, arg |-> arg]

\* decrypt (lines 8-16): the string, or null and an error line when it throws.
decrypt(ciphertext) ==
    LET bytes == AesDecryptUtf8(ciphertext.v)
    IN  IF bytes.threw
        THEN [value |-> JsNull,
              out |-> <<Line("error", "Decryption error:", "Malformed UTF-8 data")>>]
        ELSE [value |-> JsStr(bytes.text), out |-> <<>>]

(***************************************************************************)
(* The callback of db.accounts.map (lines 29-48).                          *)
(***************************************************************************)
\* Mutant of rest: the destructuring does not take encryptedCode out.
restKeepsAll(acc) == acc

\* const { encryptedCode, ...rest } = acc
rest(acc) == [f \in DOMAIN acc \ {"encryptedCode"} |-> acc[f]]

\* The plaintext after lines 33-36, with the console lines decrypt wrote.
plainCode(acc) ==
    LET encryptedCode == Get(acc, "encryptedCode")
    IN  IF Truthy(encryptedCode)
        THEN decrypt(encryptedCode)
        ELSE [value |-> JsNull, out |-> <<>>]

\* Mutant of normalise: the warning is written but the code is left as it is.
normaliseKeepsNull(acc, plain) ==
    IF ~Truthy(plain.value)
    THEN [value |-> plain.value,
          out |-> Append(plain.out,
                         Line("warn", "[WARN] Could not decrypt code for",
                              TemplateText(Get(acc, "name"))))]
    ELSE plain

\* Mutant of normalise: the test is plainCode === null instead of !plainCode.
normaliseNullOnly(acc, plain) ==
    IF plain.value = JsNull
    THEN [value |-> JsStr(""),
          out |-> Append(plain.out,
                         Line("warn", "[WARN] Could not decrypt code for",
                              TemplateText(Get(acc, "name"))))]
    ELSE plain

\* Lines 38-41: a falsy plaintext is warned about and becomes "".
normalise(acc, plain) ==
    IF ~Truthy(plain.value)
    THEN [value |-> JsStr(""),
          out |-> Append(plain.out,
                         Line("warn", "[WARN] Could not decrypt code for",
                              TemplateText(Get(acc, "name"))))]
    ELSE plain

\* Mutant of targetRecord: { code: plainCode, pingEnabled: false, ...rest }
targetRecordRestLast(restFields, code) ==
    Merge(restFields, [code |-> code, pingEnabled |-> JsBool(FALSE)])

\* Lines 43-47: { ...rest, code: plainCode, pingEnabled: false }
targetRecord(restFields, code) ==
    Put(Put(restFields, "code", code), "pingEnabled", JsBool(FALSE))

\* The whole callback: the target record and the console lines it wrote.
transform(acc) ==
    LET plain == normalise(acc, plainCode(acc))
    IN  [record |-> targetRecord(rest(acc), plain.value), out |-> plain.out]

(***************************************************************************)
(* Files.                                                                  *)
(***************************************************************************)
Names == {"Alt1", "Alt2"}

\* encryptedCode of a legacy record: absent, empty, or a ciphertext.
EncryptedCodes == [encryptedCode : {JsStr(ct) : ct \in Ciphertexts \cup {""}}] \cup {<<>>}

\* The open set of other fields, including fields named like the new ones.
OtherFields ==
    { <<>>,
      [server |-> JsStr("E-1"), pingEnabled |-> JsBool(TRUE)],
      [code |-> JsStr("old"), pingEnabled |-> JsStr("yes")] }

LegacyRecords ==
    { Merge([name |-> JsStr(n)], Merge(e, o)) :
        n \in Names, e \in EncryptedCodes, o \in OtherFields }

AccountSeqs == UNION { [1..n -> LegacyRecords] : n \in 0..MaxAccounts }

Settings == "{foo:1}"

File(kind, accounts) == [kind |-> kind, accounts |-> accounts, settings |-> Settings]

\* What can be at PARENT_DB_PATH: nothing, something unreadable, text that
\* is not JSON, JSON without an accounts array, or a legacy document.
SourceFiles ==
    { File(k, <<>>) : k \in {"missing", "unreadable", "notjson", "noaccounts"} }
    \cup { File("json", a) : a \in AccountSeqs }

\* What can be at TARGET_DB_PATH before the run: nothing, or an earlier file.
OldTarget == File("json", << [name |-> JsStr("Old"), code |-> JsStr("KEEP")] >>)
Absent == File("absent", <<>>)
DestFilesBefore == {Absent, OldTarget}

VARIABLES
    pc,          \* the statement the script is at
    srcFile,     \* the file at PARENT_DB_PATH
    destFile,    \* the file at TARGET_DB_PATH
    destBefore,  \* the file at TARGET_DB_PATH when the run started
    db,          \* const db (line 25)
    i,           \* index of the next element map visits
    newAccounts, \* the array map is building
    console,     \* the lines written to the console, in order
    exitCode,    \* the exit status the process ends with
    reads,       \* number of readFileSync calls made
    writes,      \* number of writeFileSync calls made
    writeResult  \* how the writeFileSync call ended, "none" before it

vars == <<pc, srcFile, destFile, destBefore, db, i, newAccounts, console,
          exitCode, reads, writes, writeResult>>

NoDb == File("none", <<>>)

Init ==
    /\ pc = "start"
    /\ srcFile \in SourceFiles
    /\ destFile \in DestFilesBefore
    /\ destBefore = destFile
    /\ db = NoDb
    /\ i = 1
    /\ newAccounts = <<>>
    /\ console = <<>>
    /\ exitCode = 0
    /\ reads = 0
    /\ writes = 0
    /\ writeResult = "none"

\* catch (e) of lines 58-60: the failure line; the script then runs off its
\* end and the process exits with the default status.
Caught(what) ==
    /\ console' = Append(console, Line("error", "Migration failed:", what))
    /\ pc' = "done"
    /\ UNCHANGED exitCode

\* Lines 19-22, source missing: the error line and process.exit(1).
SourceMissing ==
    /\ pc = "start"
    /\ srcFile.kind = "missing"
    /\ console' = Append(console, Line("error", "Parent DB not found at", "PARENT_DB_PATH"))
    /\ exitCode' = 1
    /\ pc' = "exited"
    /\ UNCHANGED <<srcFile, destFile, destBefore, db, i, newAccounts, reads, writes, writeResult>>

\* Line 19, source present.
SourceExists ==
    /\ pc = "start"
    /\ srcFile.kind # "missing"
    /\ pc' = "read"
    /\ UNCHANGED <<srcFile, destFile, destBefore, db, i, newAccounts, console,
                   exitCode, reads, writes, writeResult>>

\* Line 24: readFileSync, which throws when the file cannot be read.
ReadSource ==
    /\ pc = "read"
    /\ reads' = reads + 1
    /\ IF srcFile.kind = "unreadable"
       THEN Caught("EACCES")
       ELSE /\ pc' = "parse"
            /\ UNCHANGED <<console, exitCode>>
    /\ UNCHANGED <<srcFile, destFile, destBefore, db, i, newAccounts, writes, writeResult>>

\* Mutant of ParseSource: text that is not JSON is taken as an empty database.
ParseSourceLenient ==
    /\ pc = "parse"
    /\ db' = IF srcFile.kind = "notjson" THEN File("json", <<>>) ELSE srcFile
    /\ pc' = "loaded"
    /\ UNCHANGED <<srcFile, destFile, destBefore, i, newAccounts, console, exitCode,
                   reads, writes, writeResult>>

\* Line 25: JSON.parse, which throws on text that is not JSON.
ParseSource ==
    /\ pc = "parse"
    /\ IF srcFile.kind = "notjson"
       THEN /\ Caught("SyntaxError")
            /\ UNCHANGED db
       ELSE /\ db' = srcFile
            /\ pc' = "loaded"
            /\ UNCHANGED <<console, exitCode>>
    /\ UNCHANGED <<srcFile, destFile, destBefore, i, newAccounts, reads, writes, writeResult>>

\* Line 27: the account count; db.accounts.length throws without accounts.
ReportLoaded ==
    /\ pc = "loaded"
    /\ IF db.kind = "noaccounts"
       THEN Caught("TypeError")
       ELSE /\ console' = Append(console, Line("log", "Loaded DB with", ToString(Len(db.accounts))))
            /\ pc' = "map"
            /\ UNCHANGED exitCode
    /\ UNCHANGED <<srcFile, destFile, destBefore, db, i, newAccounts, reads, writes, writeResult>>

\* Mutant of mapStep: a record left without a code is not kept.
mapStepSkipEmpty(acc, r) == IF r.code.v = "" THEN acc ELSE Append(acc, r)

\* The array after map's callback returned r for element i.
mapStep(acc, r) == Append(acc, r)

\* Lines 29-48: map calls the callback on the next element.
TransformRecord ==
    /\ pc = "map"
    /\ i <= Len(db.accounts)
    /\ LET t == transform(db.accounts[i])
       IN  /\ newAccounts' = mapStep(newAccounts, t.record)
           /\ console' = console \o t.out
    /\ i' = i + 1
    /\ UNCHANGED <<pc, srcFile, destFile, destBefore, db, exitCode, reads, writes, writeResult>>

\* map is done with the array.
MapDone ==
    /\ pc = "map"
    /\ i > Len(db.accounts)
    /\ pc' = "write"
    /\ UNCHANGED <<srcFile, destFile, destBefore, db, i, newAccounts, console,
                   exitCode, reads, writes, writeResult>>

\* Lines 50-53 and JSON.stringify: the document that is to be written.
newDb == [kind |-> "json", accounts |-> newAccounts, settings |-> db.settings]

\* What writeFileSync can do: open (truncating), write, close.  It can fail
\* before the file is opened, or after the open truncated it.
WriteOutcomes == {"written", "openFailed", "writeFailed"}

\* The file at the destination after a writeFileSync with that outcome.
destAfter(outcome, before, doc) ==
    CASE outcome = "written"     -> doc
      [] outcome = "openFailed"  -> before
      [] outcome = "writeFailed" -> [doc EXCEPT !.kind = "truncated"]

\* Mutant of WriteDest: a failed write is reported and the script goes on.
WriteDestSwallow ==
    /\ pc = "write"
    /\ writes' = writes + 1
    /\ \E outcome \in WriteOutcomes :
        /\ writeResult' = outcome
        /\ destFile' = destAfter(outcome, destFile, newDb)
        /\ console' = IF outcome = "written" THEN console
                      ELSE Append(console, Line("error", "Migration failed:", "EACCES"))
    /\ pc' = "report"
    /\ UNCHANGED <<srcFile, destBefore, db, i, newAccounts, reads, exitCode>>

\* Line 55.
WriteDest ==
    /\ pc = "write"
    /\ writes' = writes + 1
    /\ \E outcome \in WriteOutcomes :
        /\ writeResult' = outcome
        /\ destFile' = destAfter(outcome, destFile, newDb)
        /\ IF outcome = "written"
           THEN /\ pc' = "report"
                /\ UNCHANGED <<console, exitCode>>
           ELSE Caught(IF outcome = "openFailed" THEN "EACCES" ELSE "ENOSPC")
    /\ UNCHANGED <<srcFile, destBefore, db, i, newAccounts, reads>>

\* Line 56.
ReportSuccess ==
    /\ pc = "report"
    /\ console' = Append(console, Line("log", "[SUCCESS] Migrated DB saved to", "TARGET_DB_PATH"))
    /\ pc' = "done"
    /\ UNCHANGED <<srcFile, destFile, destBefore, db, i, newAccounts, exitCode,
                   reads, writes, writeResult>>

Next ==
    \/ SourceMissing
    \/ SourceExists
    \/ ReadSource
    \/ ParseSource
    \/ ReportLoaded
    \/ TransformRecord
    \/ MapDone
    \/ WriteDest
    \/ ReportSuccess

Spec == Init /\ [][Next]_vars

(***************************************************************************)
(* Properties.                                                             *)
(***************************************************************************)
Terminated == pc \in {"done", "exited"}

SuccessLine == Line("log", "[SUCCESS] Migrated DB saved to", "TARGET_DB_PATH")
ErrorLine == Line("error", "Decryption error:", "Malformed UTF-8 data")
WarnLine(acc) == Line("warn", "[WARN] Could not decrypt code for", acc.name.v)

Reported(line) == \E k \in 1..Len(console) : console[k].line = line
ReportedSuccess == \E k \in 1..Len(console) : console[k] = SuccessLine
ReportedFailure == Reported("Migration failed:") \/ Reported("Parent DB not found at")

\* The records transformed so far, by position.
Done == 1..Len(newAccounts)

\* The text of a legacy record's encryptedCode, "" when it is absent.
Ct(acc) == Get(acc, "encryptedCode").v

\* encryptedCode is present and not empty: the callback calls decrypt.
HasCiphertext(acc) == Ct(acc) # ""

\* The ciphertext is not one produced under the legacy key.
InvalidCiphertext(acc) ==
    Ct(acc) \in {CtGarbage, CtBadUtf8, CtForeign}

\* decrypt delivered a non-empty string for the record.
Decrypted(acc) ==
    /\ HasCiphertext(acc)
    /\ ~AesDecryptUtf8(Ct(acc)).threw
    /\ AesDecryptUtf8(Ct(acc)).text # ""

\* C1: the target sequence has the source's records, transformed, in the
\* source's order: record k of the array being built is the transformation
\* of record k of the source (and carries its name), and a completed write
\* leaves exactly as many records at the destination as the source holds.
C1_CountAndOrderPreserved ==
    /\ \A k \in Done :
        /\ k <= Len(srcFile.accounts)
        /\ newAccounts[k] = transform(srcFile.accounts[k]).record
        /\ newAccounts[k].name = srcFile.accounts[k].name
    /\ writeResult = "written" =>
        /\ destFile.kind = "json"
        /\ destFile.accounts = newAccounts
        /\ Len(destFile.accounts) = Len(srcFile.accounts)

\* C1 witness: two records written, the first failed decryption and the
\* second decrypted.
C1_Witness ==
    /\ writeResult = "written"
    /\ Len(srcFile.accounts) = 2
    /\ InvalidCiphertext(srcFile.accounts[1])
    /\ destFile.accounts[1].code.v = ""
    /\ destFile.accounts[2].code.v = "ABC123"
    /\ destFile.accounts[1].name # destFile.accounts[2].name

\* C2: a record whose encryptedCode is invalid (malformed, under another
\* key, or making decrypt throw) never aborts the run: a run on a document
\* with accounts that ends has made the write call, and reports success
\* when the call returned; and every such record gets code "".
C2_DecryptFailureNeverAborts ==
    /\ (pc = "done" /\ srcFile.kind = "json") =>
        /\ writes = 1
        /\ writeResult = "written" => ReportedSuccess
    /\ \A k \in Done :
        InvalidCiphertext(srcFile.accounts[k]) => newAccounts[k].code = JsStr("")

C4_OtherFieldsPreserved ==
    \A k \in Done :
        LET acc == srcFile.accounts[k]
            new == newAccounts[k]
        IN  /\ DOMAIN new = (DOMAIN acc \ {"encryptedCode"}) \cup {"code", "pingEnabled"}
            /\ "encryptedCode" \notin DOMAIN new
            /\ \A f \in DOMAIN acc \ {"encryptedCode", "code", "pingEnabled"} :
                new[f] = acc[f]

\* C4 witness: a written record that had encryptedCode and a server field.
C4_Witness ==
    /\ writeResult = "written"
    /\ Len(srcFile.accounts) >= 1
    /\ {"encryptedCode", "server"} \subseteq DOMAIN srcFile.accounts[1]
    /\ destFile.accounts[1].server = JsStr("E-1")

\* C5: pingEnabled is false in every target record, whatever the legacy
\* record carried under that name.
C5_PingEnabledFalse ==
    \A k \in Done : newAccounts[k].pingEnabled = JsBool(FALSE)

\* C5 witness: written records whose legacy pingEnabled was true and "yes".
C5_Witness ==
    /\ writeResult = "written"
    /\ Len(srcFile.accounts) = 2
    /\ Get(srcFile.accounts[1], "pingEnabled") = JsBool(TRUE)
    /\ Get(srcFile.accounts[2], "pingEnabled") = JsStr("yes")
    /\ destFile.accounts[2].pingEnabled = JsBool(FALSE)

\* C6: with the source missing or not JSON, writeFileSync is never called
\* and the destination keeps what it held before the run.
C6_NoWriteOnBadSource ==
    srcFile.kind \in {"missing", "notjson"} =>
        /\ writes = 0
        /\ writeResult = "none"
        /\ destFile = destBefore

\* C6 witness: the run ended on a source that is not JSON, over an earlier
\* destination file.
C6_Witness ==
    /\ Terminated
    /\ srcFile.kind = "notjson"
    /\ Reported("Migration failed:")
    /\ destFile = OldTarget

\* C7: every fatal condition (source missing, source not JSON, write
\* failed) ends the process with a non-zero status, and status 0 only
\* follows a completed write.
C7_FatalExitsNonZero ==
    Terminated =>
        /\ (\/ srcFile.kind \in {"missing", "notjson"}
            \/ writeResult \in {"openFailed", "writeFailed"}) => exitCode # 0
        /\ exitCode = 0 => writeResult = "written"

\* C8: when the run has ended, the destination holds what it held before
\* the run or the complete new document.
C8_DestAllOrNothing ==
    Terminated =>
        \/ destFile = destBefore
        \/ writeResult = "written" /\ destFile = newDb

\* The console lines a step wrote.
Written == SubSeq(console', Len(console) + 1, Len(console'))

\* The step is map's callback on record i.
CallbackStep == pc = "map" /\ i <= Len(db.accounts) /\ i' = i + 1

C10_ReadTransformWriteOnce ==
    /\ reads <= 1
    /\ writes <= 1
    /\ writes = 1 =>
        /\ reads = 1
        /\ db.kind = "json"
        /\ Len(newAccounts) = Len(db.accounts)
    /\ ReportedSuccess => writeResult = "written"
    /\ ~(ReportedSuccess /\ ReportedFailure)

\* C10 witness: a run that read, transformed two records, wrote and
\* reported success.
C10_Witness ==
    /\ pc = "done"
    /\ reads = 1
    /\ writes = 1
    /\ Len(newAccounts) = 2
    /\ console[Len(console)] = SuccessLine

====
